---- MODULE Spec2Model ----
\* A model of rabu's multi-channel Buffer (src/src/buffer.rs), of its
\* BiquadFilter (src/src/biquad.rs) and of its unit types (src/src/units).
\*
\* Spec         two buffers ("source", "dest") driven by the Buffer operations,
\*              plus one iterator at a time borrowed from "source".
\* SpecBiquad   one BiquadFilter driven by process / set_coefficients.
\* SpecWriters  one buffer whose iter_chans_mut() slices are written by one
\*              writer per channel, their sample writes interleaved.
\* SpecDesign   low_pass_coefficients over cutoffs near 0.
\* SpecUnits    Seconds::to_samples / Samples::to_seconds and
\*              TimeSection::get_overlap.
\* SpecAlloc    Buffer::allocate over the whole range of its arguments.
\*
\* Samples are small integers.  For the filter they stand for f64 values: every
\* product and sum the model forms stays far below 2^53, where f64 arithmetic
\* on integers is exact, so the integer result is the f64 result.
EXTENDS Integers, Sequences, FiniteSets, TLC

VARIABLES bufs, created, result, iter, items, filter, inputs, outputs, fresult,
          writers, calc

vars == <<bufs, created, result, iter, items, filter, inputs, outputs, fresult,
          writers, calc>>
bufferVars == <<bufs, created, result, iter, items>>
biquadVars == <<filter, inputs, outputs, fresult>>
auxVars == <<writers, calc>>

\* ---------------------------------------------------------------- bounds

MaxChannels == 2
MaxSamples == 2
\* the largest number of elements one buffer holds in the model
MaxLen == 4
\* the largest number of process calls on the filter
MaxProcess == 3

\* T::default() of the sample type (0.0 for f32)
Default == 0
SampleValues == {0, 1}
Slots == {"source", "dest"}
Shapes == {sh \in (0..MaxChannels) \X (0..MaxSamples) : sh[1] * sh[2] <= MaxLen}
\* indices tried by the callers, valid and out of range
Indices == 0..MaxChannels
Positions == 0..MaxLen

\* ---------------------------------------------------------------- units

\* The widths of the integer types, scaled down: usize and u64 have UsizeBits
\* bits (a 64-bit target), u32 has ChannelBits bits.
UsizeBits == 4
ChannelBits == 2
SampleBits == UsizeBits
UsizeRange == 2 ^ UsizeBits

\* overflow checks are on in a debug build and off in a release build
Builds == {"debug", "release"}

\* Channels::as_usize: u32 widened to usize
ChannelsAsUsize(c) == c

\* Samples::as_usize: u64 as usize
SamplesAsUsize(s) == s % UsizeRange

Min(a, b) == IF a <= b THEN a ELSE b

\* ---------------------------------------------------------------- Buffer

\* allocate sizing data for one channel only (the multiplication forgotten)
allocate_one_channel(num_channels, num_samples) ==
    LET total_num_samples == SamplesAsUsize(num_samples)
    IN  [data |-> [i \in 1..total_num_samples |-> Default],
         num_channels |-> num_channels,
         num_samples |-> num_samples]

\* Buffer::allocate, line 33: whether num_samples.as_usize() *
\* num_channels.as_usize() leaves the range of usize, which aborts the call
\* where overflow checks are on
allocate_overflows(num_channels, num_samples) ==
    SamplesAsUsize(num_samples) * ChannelsAsUsize(num_channels) >= UsizeRange

\* Buffer::allocate where it returns: the product is taken in usize, wrapping
\* around where overflow checks are off
allocate(num_channels, num_samples) ==
    LET total_num_samples ==
            (SamplesAsUsize(num_samples) * ChannelsAsUsize(num_channels)) % UsizeRange
    IN  [data |-> [i \in 1..total_num_samples |-> Default],
         num_channels |-> num_channels,
         num_samples |-> num_samples]

\* chan accepting index == num_channels (> written for >=)
chan_off_by_one(self, index) ==
    IF index > ChannelsAsUsize(self.num_channels)
    THEN [panic |-> TRUE, start |-> 0, end |-> 0]
    ELSE LET start == index * SamplesAsUsize(self.num_samples)
             end == start + SamplesAsUsize(self.num_samples)
         IN  [panic |-> end > Len(self.data), start |-> start, end |-> end]

\* Buffer::chan: the range [start, end) of data the returned slice covers;
\* panic when the index check or the slicing of data fails.
chan(self, index) ==
    IF index >= ChannelsAsUsize(self.num_channels)
    THEN [panic |-> TRUE, start |-> 0, end |-> 0]
    ELSE LET start == index * SamplesAsUsize(self.num_samples)
             end == start + SamplesAsUsize(self.num_samples)
         IN  [panic |-> end > Len(self.data), start |-> start, end |-> end]

\* chan_mut striding by the channel count instead of the channel length
chan_mut_channel_stride(self, index) ==
    IF index >= ChannelsAsUsize(self.num_channels)
    THEN [panic |-> TRUE, start |-> 0, end |-> 0]
    ELSE LET start == index * ChannelsAsUsize(self.num_channels)
             end == start + SamplesAsUsize(self.num_samples)
         IN  [panic |-> end > Len(self.data), start |-> start, end |-> end]

\* Buffer::chan_mut: as chan, the slice is writable
chan_mut(self, index) ==
    IF index >= ChannelsAsUsize(self.num_channels)
    THEN [panic |-> TRUE, start |-> 0, end |-> 0]
    ELSE LET start == index * SamplesAsUsize(self.num_samples)
             end == start + SamplesAsUsize(self.num_samples)
         IN  [panic |-> end > Len(self.data), start |-> start, end |-> end]

\* the elements a slice holds
SliceOf(self, r) == SubSeq(self.data, r.start + 1, r.end)

\* slice[j] = value through a mutable slice r of self (bounds-checked)
slice_write(self, r, j, value) ==
    IF r.panic \/ j >= r.end - r.start
    THEN [panic |-> TRUE, buf |-> self]
    ELSE [panic |-> FALSE, buf |-> [self EXCEPT !.data[r.start + j + 1] = value]]

\* target.chan_mut(channel)[sample] = self.chan(channel)[sample]
copy_sample(self, target, channel, sample) ==
    LET s == chan(self, channel)
    IN  IF s.panic \/ sample >= s.end - s.start
        THEN [panic |-> TRUE, buf |-> target]
        ELSE slice_write(target, chan_mut(target, channel), sample,
                         self.data[s.start + sample + 1])

\* for channel in 0..nch { for sample in 0..nsamp { copy_sample } }, from the
\* k-th iteration on; a panic leaves the writes made so far in target.
RECURSIVE copy_loop(_, _, _, _, _)
copy_loop(self, target, nch, nsamp, k) ==
    IF k >= nch * nsamp
    THEN [panic |-> FALSE, buf |-> target]
    ELSE LET r == copy_sample(self, target, k \div nsamp, k % nsamp)
         IN  IF r.panic THEN r ELSE copy_loop(self, r.buf, nch, nsamp, k + 1)

\* clone_resized copying storage positions instead of (channel, sample) pairs
clone_resized_flat(self, num_channels, num_samples) ==
    LET target == allocate(num_channels, num_samples)
    IN  [panic |-> FALSE,
         buf |-> [target EXCEPT !.data =
                     [i \in 1..Len(target.data) |->
                         IF i <= Len(self.data) THEN self.data[i] ELSE Default]]]

\* Buffer::clone_resized
clone_resized(self, num_channels, num_samples) ==
    copy_loop(self, allocate(num_channels, num_samples),
              ChannelsAsUsize(Min(self.num_channels, num_channels)),
              SamplesAsUsize(Min(self.num_samples, num_samples)), 0)

\* copy_into comparing the element counts instead of the two dimensions
copy_into_len_check(self, dest) ==
    IF Len(self.data) # Len(dest.data)
    THEN [panic |-> TRUE, buf |-> dest]
    ELSE copy_loop(self, dest, ChannelsAsUsize(self.num_channels),
                   SamplesAsUsize(self.num_samples), 0)

\* copy_into whose sample loop stops one short
copy_into_skip_last_sample(self, dest) ==
    IF self.num_channels # dest.num_channels \/ self.num_samples # dest.num_samples
    THEN [panic |-> TRUE, buf |-> dest]
    ELSE IF self.num_samples = 0
         THEN [panic |-> FALSE, buf |-> dest]
         ELSE copy_loop(self, dest, ChannelsAsUsize(self.num_channels),
                        SamplesAsUsize(self.num_samples) - 1, 0)

\* Buffer::copy_into
copy_into(self, dest) ==
    IF self.num_channels # dest.num_channels \/ self.num_samples # dest.num_samples
    THEN [panic |-> TRUE, buf |-> dest]
    ELSE copy_loop(self, dest, ChannelsAsUsize(self.num_channels),
                   SamplesAsUsize(self.num_samples), 0)

\* self.data.iter().any(|s| *s == T::default()) from element i on
RECURSIVE any_default(_, _)
any_default(data, i) ==
    IF i > Len(data) THEN FALSE
    ELSE IF data[i] = Default THEN TRUE
    ELSE any_default(data, i + 1)

\* is_default_filled asking for some default element
is_default_filled_any(self) == any_default(self.data, 1)

\* self.data.iter().all(|s| *s == T::default()) from element i on: all stops
\* with false at the first element that fails the test
RECURSIVE all_default(_, _)
all_default(data, i) ==
    IF i > Len(data) THEN TRUE
    ELSE IF data[i] # Default THEN FALSE
    ELSE all_default(data, i + 1)

\* Buffer::is_default_filled
is_default_filled(self) == all_default(self.data, 1)

\* Buffer::fill_default
fill_default(self) ==
    [self EXCEPT !.data = [i \in 1..Len(self.data) |-> Default]]

\* the closures handed to map_samples: |_| 1, |x| 1 - x, |x| x
MapFuncs == {"one", "flip", "id"}
ApplyFunc(f, x) == CASE f = "one" -> 1 [] f = "flip" -> 1 - x [] OTHER -> x

\* map_samples takes an FnMut: besides the three closures above, one that
\* keeps a count of its calls, |_| { n += 1; n % 2 }
MapClosures == MapFuncs \cup {"toggle"}

\* one call func(sample); calls holds the arguments of the calls made before
CallFunc(f, x, calls) ==
    IF f = "toggle" THEN (Len(calls) + 1) % 2 ELSE ApplyFunc(f, x)

\* data.iter_mut().rev().for_each(..): the calls made from the last element
\* of data down to the first
RECURSIVE for_each_reversed(_, _, _, _)
for_each_reversed(data, f, i, calls) ==
    IF i < 1 THEN [data |-> data, calls |-> calls]
    ELSE for_each_reversed([data EXCEPT ![i] = CallFunc(f, data[i], calls)],
                           f, i - 1, Append(calls, data[i]))

\* map_samples walking the storage backwards
map_samples_reversed(self, f) ==
    LET r == for_each_reversed(self.data, f, Len(self.data), <<>>)
    IN  [buf |-> [self EXCEPT !.data = r.data], calls |-> r.calls]

\* data.iter_mut().for_each(|sample| *sample = func(*sample)) from element i
\* on: one call per element, each replacing the element by what func returned
RECURSIVE for_each(_, _, _, _)
for_each(data, f, i, calls) ==
    IF i > Len(data) THEN [data |-> data, calls |-> calls]
    ELSE for_each([data EXCEPT ![i] = CallFunc(f, data[i], calls)],
                  f, i + 1, Append(calls, data[i]))

\* Buffer::map_samples: the buffer it leaves, and the arguments func was
\* called with, in the order of the calls
map_samples(self, f) ==
    LET r == for_each(self.data, f, 1, <<>>)
    IN  [buf |-> [self EXCEPT !.data = r.data], calls |-> r.calls]

\* Buffer::data_mut, then data[i] = value
data_mut_write(self, i, value) ==
    IF i >= Len(self.data)
    THEN [panic |-> TRUE, buf |-> self]
    ELSE [panic |-> FALSE, buf |-> [self EXCEPT !.data[i + 1] = value]]

\* next taking index / num_channels before it tests index against the
\* total: the division aborts when num_channels is 0
interleaved_next_divides_first(buffer, index) ==
    IF ChannelsAsUsize(buffer.num_channels) = 0
    THEN [some |-> FALSE, panic |-> TRUE, index |-> index, item |-> Default]
    ELSE LET num_channels == ChannelsAsUsize(buffer.num_channels)
             num_samples == SamplesAsUsize(buffer.num_samples)
             total_num_samples == num_samples * num_channels
             sample_index == index \div num_channels
         IN  IF index >= total_num_samples
             THEN [some |-> FALSE, panic |-> FALSE, index |-> index, item |-> Default]
             ELSE [some |-> TRUE, panic |-> FALSE, index |-> index + 1,
                   item |-> buffer.data[(index - sample_index * num_channels)
                                        * num_samples + sample_index + 1]]

\* next walking the storage in channel-major order (no interleaving)
interleaved_next_storage_order(buffer, index) ==
    LET num_channels == ChannelsAsUsize(buffer.num_channels)
        num_samples == SamplesAsUsize(buffer.num_samples)
        total_num_samples == num_samples * num_channels
    IN  IF index >= total_num_samples
        THEN [some |-> FALSE, panic |-> FALSE, index |-> index, item |-> Default]
        ELSE [some |-> TRUE, panic |-> FALSE, index |-> index + 1,
              item |-> buffer.data[index + 1]]

\* InterleavedIterator::next on an iterator at `index` over buffer
interleaved_next(buffer, index) ==
    LET num_channels == ChannelsAsUsize(buffer.num_channels)
        num_samples == SamplesAsUsize(buffer.num_samples)
        total_num_samples == num_samples * num_channels
    IN  IF index >= total_num_samples
        THEN [some |-> FALSE, panic |-> FALSE, index |-> index, item |-> Default]
        ELSE LET sample_index == index \div num_channels
                 channel_index == index - (sample_index * num_channels)
                 c == chan(buffer, channel_index)
             IN  IF c.panic \/ sample_index >= c.end - c.start
                 THEN [some |-> FALSE, panic |-> TRUE, index |-> index + 1,
                       item |-> Default]
                 ELSE [some |-> TRUE, panic |-> FALSE, index |-> index + 1,
                       item |-> buffer.data[c.start + sample_index + 1]]

\* next that hands out the first channel's slice on every call
mut_channel_next_same_channel(buffer, current_channel) ==
    IF current_channel >= ChannelsAsUsize(buffer.num_channels)
    THEN [some |-> FALSE, panic |-> FALSE, current_channel |-> current_channel,
          item |-> [start |-> 0, end |-> 0]]
    ELSE LET channel == chan_mut(buffer, 0)
         IN  [some |-> ~channel.panic, panic |-> channel.panic,
              current_channel |-> IF channel.panic THEN current_channel
                                  ELSE current_channel + 1,
              item |-> [start |-> channel.start, end |-> channel.end]]

\* next that advances current_channel before it takes the channel
mut_channel_next_advance_first(buffer, current_channel) ==
    IF current_channel >= ChannelsAsUsize(buffer.num_channels)
    THEN [some |-> FALSE, panic |-> FALSE, current_channel |-> current_channel,
          item |-> [start |-> 0, end |-> 0]]
    ELSE LET channel == chan_mut(buffer, current_channel + 1)
         IN  [some |-> ~channel.panic, panic |-> channel.panic,
              current_channel |-> IF channel.panic THEN current_channel
                                  ELSE current_channel + 1,
              item |-> [start |-> channel.start, end |-> channel.end]]

\* MutChannelIterator::next on an iterator at current_channel: the yielded
\* mutable slice is the range of data that chan_mut returned
mut_channel_next(buffer, current_channel) ==
    IF current_channel >= ChannelsAsUsize(buffer.num_channels)
    THEN [some |-> FALSE, panic |-> FALSE, current_channel |-> current_channel,
          item |-> [start |-> 0, end |-> 0]]
    ELSE LET channel == chan_mut(buffer, current_channel)
         IN  [some |-> ~channel.panic, panic |-> channel.panic,
              current_channel |-> IF channel.panic THEN current_channel
                                  ELSE current_channel + 1,
              item |-> [start |-> channel.start, end |-> channel.end]]

\* one pass of a writer's loop `for s in slice.iter_mut() { *s = f(*s) }`:
\* sample j of the slice r of buf becomes f of what the slice shows there
writer_step(buf, r, f, j) ==
    slice_write(buf, [panic |-> FALSE, start |-> r.start, end |-> r.end], j,
                ApplyFunc(f, SliceOf(buf, r)[j + 1])).buf

\* the passes j .. n-1 of one writer, run without interruption
RECURSIVE run_writer(_, _, _, _, _)
run_writer(buf, r, f, j, n) ==
    IF j >= n THEN buf
    ELSE run_writer(writer_step(buf, r, f, j), r, f, j + 1, n)

\* the writers k .. of progs run one after another, each on its own slice
RECURSIVE run_writers_in_turn(_, _, _, _)
run_writers_in_turn(buf, slices, progs, k) ==
    IF k > Len(progs) THEN buf
    ELSE run_writers_in_turn(
             run_writer(buf, slices[k], progs[k].func, 0,
                        slices[k].end - slices[k].start),
             slices, progs, k + 1)

\* Buffer::iter_interleaved: a new iterator over self, at index 0
iter_interleaved(self) ==
    [alive |-> TRUE, kind |-> "interleaved", index |-> 0, done |-> FALSE]

\* Buffer::iter_chans: a new iterator over self, at current_channel 0
iter_chans(self) ==
    [alive |-> TRUE, kind |-> "chans", index |-> 0, done |-> FALSE]

\* next that stops one channel early
channel_next_stops_early(buffer, current_channel) ==
    IF current_channel + 1 >= ChannelsAsUsize(buffer.num_channels)
    THEN [some |-> FALSE, panic |-> FALSE, current_channel |-> current_channel,
          item |-> [start |-> 0, end |-> 0]]
    ELSE LET channel == chan(buffer, current_channel)
         IN  [some |-> ~channel.panic, panic |-> channel.panic,
              current_channel |-> IF channel.panic THEN current_channel
                                  ELSE current_channel + 1,
              item |-> [start |-> channel.start, end |-> channel.end]]

\* ChannelIterator::next on an iterator at current_channel
channel_next(buffer, current_channel) ==
    IF current_channel >= ChannelsAsUsize(buffer.num_channels)
    THEN [some |-> FALSE, panic |-> FALSE, current_channel |-> current_channel,
          item |-> [start |-> 0, end |-> 0]]
    ELSE LET channel == chan(buffer, current_channel)
         IN  [some |-> ~channel.panic, panic |-> channel.panic,
              current_channel |-> IF channel.panic THEN current_channel
                                  ELSE current_channel + 1,
              item |-> [start |-> channel.start, end |-> channel.end]]

\* ---------------------------------------------------------------- BiquadFilter

\* the BiquadCoefficients values the callers use
CoefficientSets ==
    { [b0 |-> 1, b1 |-> 2, b2 |-> 3, a1 |-> 1, a2 |-> 2],
      [b0 |-> 2, b1 |-> 0, b2 |-> 1, a1 |-> -1, a2 |-> 0],
      [b0 |-> 0, b1 |-> 1, b2 |-> 0, a1 |-> 0, a2 |-> 1] }
FilterInputs == {-1, 0, 1}

\* BiquadFilter::new
new(coefficients) ==
    [coefficients |-> coefficients, x1 |-> 0, x2 |-> 0, y1 |-> 0, y2 |-> 0]

\* set_coefficients that also clears the state
set_coefficients_reset(self, coefficients) ==
    [coefficients |-> coefficients, x1 |-> 0, x2 |-> 0, y1 |-> 0, y2 |-> 0]

\* BiquadFilter::set_coefficients
set_coefficients(self, coefficients) ==
    [self EXCEPT !.coefficients = coefficients]

\* process adding the feedback terms instead of subtracting them
process_feedback_added(self, input) ==
    LET output == self.coefficients.b0 * input
                  + self.coefficients.b1 * self.x1
                  + self.coefficients.b2 * self.x2
                  + self.coefficients.a1 * self.y1
                  + self.coefficients.a2 * self.y2
    IN  [output |-> output,
         filter |-> [self EXCEPT !.x2 = self.x1, !.x1 = input,
                                 !.y2 = self.y1, !.y1 = output]]

\* process shifting in the wrong order: x1 and y1 overwritten before they move
process_shift_reordered(self, input) ==
    LET output == self.coefficients.b0 * input
                  + self.coefficients.b1 * self.x1
                  + self.coefficients.b2 * self.x2
                  - self.coefficients.a1 * self.y1
                  - self.coefficients.a2 * self.y2
        s1 == [self EXCEPT !.x1 = input]
        s2 == [s1 EXCEPT !.x2 = s1.x1]
        s3 == [s2 EXCEPT !.y1 = output]
        s4 == [s3 EXCEPT !.y2 = s3.y1]
    IN  [output |-> output, filter |-> s4]

\* BiquadFilter::process: the returned output and the filter afterwards
process(self, input) ==
    LET output == self.coefficients.b0 * input
                  + self.coefficients.b1 * self.x1
                  + self.coefficients.b2 * self.x2
                  - self.coefficients.a1 * self.y1
                  - self.coefficients.a2 * self.y2
        s1 == [self EXCEPT !.x2 = self.x1]
        s2 == [s1 EXCEPT !.x1 = input]
        s3 == [s2 EXCEPT !.y2 = s2.y1]
        s4 == [s3 EXCEPT !.y1 = output]
    IN  [output |-> output, filter |-> s4]

\* ---------------------------------------------------------------- coefficient design
\* f64 values are kept in fixed point, in units of 1/FixedOne.  sin and cos
\* are their Taylor polynomials through w^5 and w^6, whose error for the
\* angles used here (w0 below 0.1) is far below one unit.

FixedOne == 10000
TwoPi == 62832

\* x * y and x / y on fixed-point values, rounded toward zero
FixMul(x, y) == IF x * y >= 0 THEN (x * y) \div FixedOne ELSE -((-(x * y)) \div FixedOne)
FixDiv(x, y) == IF x >= 0 THEN (x * FixedOne) \div y ELSE -(((-x) * FixedOne) \div y)

\* f64::cos and f64::sin
Cos(w) ==
    LET w2 == FixMul(w, w)
        w4 == FixMul(w2, w2)
        w6 == FixMul(w4, w2)
    IN  FixedOne - (w2 \div 2) + (w4 \div 24) - (w6 \div 720)
Sin(w) ==
    LET w2 == FixMul(w, w)
        w3 == FixMul(w2, w)
        w5 == FixMul(w3, w2)
    IN  w - (w3 \div 6) + (w5 \div 120)

\* the cutoff frequencies handed to the design functions, in millihertz
MaxCutoff == 100
Cutoffs == 1..MaxCutoff
SampleRates == {10, 20, 40}

\* low_pass_coefficients with the b1 of high_pass_coefficients, sign dropped
low_pass_coefficients_high_pass_b1(sample_rate, cutoff) ==
    LET w0 == (TwoPi * cutoff) \div (1000 * sample_rate)
        cos_w0 == Cos(w0)
        sin_w0 == Sin(w0)
        alpha == sin_w0
        b0 == (FixedOne - cos_w0) \div 2
        b1 == FixedOne + cos_w0
        b2 == (FixedOne - cos_w0) \div 2
        a0 == FixedOne + alpha
        a1 == -2 * cos_w0
        a2 == FixedOne - alpha
    IN  [b0 |-> FixDiv(b0, a0), b1 |-> FixDiv(b1, a0), b2 |-> FixDiv(b2, a0),
         a1 |-> FixDiv(a1, a0), a2 |-> FixDiv(a2, a0)]

\* BiquadCoefficients::low_pass_coefficients(sample_rate, frequency), the
\* frequency in millihertz: alpha = sin_w0 / (2.0 * 0.5) = sin_w0
low_pass_coefficients(sample_rate, cutoff) ==
    LET w0 == (TwoPi * cutoff) \div (1000 * sample_rate)
        cos_w0 == Cos(w0)
        sin_w0 == Sin(w0)
        alpha == sin_w0
        b0 == (FixedOne - cos_w0) \div 2
        b1 == FixedOne - cos_w0
        b2 == (FixedOne - cos_w0) \div 2
        a0 == FixedOne + alpha
        a1 == -2 * cos_w0
        a2 == FixedOne - alpha
    IN  [b0 |-> FixDiv(b0, a0), b1 |-> FixDiv(b1, a0), b2 |-> FixDiv(b2, a0),
         a1 |-> FixDiv(a1, a0), a2 |-> FixDiv(a2, a0)]

\* ---------------------------------------------------------------- unit conversions
\* Seconds are f64 values kept in tenths of a second, sample rates are f64
\* values kept in halves of a hertz, so that rates with a fractional part
\* (SampleRate::from(2.5)) are among them; time points and durations of
\* sections are whole seconds.  The products and quotients formed below are
\* then exact rationals, which f64 holds to within 2^-52 of their size.

MaxTenths == 104
MaxHalfRate == 20
SecondsValues == 0..MaxTenths
RateValues == 1..MaxHalfRate

\* SampleRate::as_u32: `self.as_f64() as _`, the rate cut down to a whole
\* number of hertz
as_u32(sr) == sr \div 2

\* SampleRate::value as Samples::to_seconds calls it: the rate as a u32
sample_rate_value(sr) == as_u32(sr)

\* f64::round on a non-negative value given in tenths: the nearest whole
\* number, halves away from zero
round(tenths) == (tenths + 5) \div 10

\* Seconds::to_samples: (self.as_f64() * sr.as_u32() as f64).round() as u64
to_samples(seconds, sr) == round(seconds * as_u32(sr))

\* Samples::to_seconds: self.as_u64() as f64 / sr.value() as f64, kept as
\* the quotient num / den; 0.0 / 0.0 is NaN
to_seconds(samples, sr) ==
    IF sample_rate_value(sr) = 0 THEN [nan |-> TRUE, num |-> 0, den |-> 1]
    ELSE [nan |-> FALSE, num |-> samples, den |-> sample_rate_value(sr)]

MaxTime == 3
MaxDuration == 3
Sections == [start : 0..MaxTime, duration : 0..MaxDuration]
None == [some |-> FALSE]

\* partial_min_max::max
Max(a, b) == IF a >= b THEN a ELSE b

\* TimeSection::end
end(self) == self.start + self.duration

\* TimeSection::get_overlap
get_overlap(self, other) ==
    IF end(self) <= other.start \/ end(other) <= self.start
    THEN None
    ELSE LET start == Max(self.start, other.start)
             stop == Min(end(self), end(other))
             duration == stop - start
         IN  [some |-> TRUE, start |-> start, duration |-> duration]

\* ---------------------------------------------------------------- state

\* the outcome of the last Buffer call: its name, the buffer it was made on,
\* its arguments, whether it returned or panicked, and what it returned
Res(op, slot, args, status, ret) ==
    [op |-> op, slot |-> slot, args |-> args, status |-> status, ret |-> ret]
Status(panic) == IF panic THEN "panic" ELSE "ok"

\* no iterator; a live one has a kind ("interleaved", "chans", "chans_mut"),
\* its index / current_channel, and whether next() has returned None
NoIter == [alive |-> FALSE, kind |-> "none", index |-> 0, done |-> FALSE]

\* the outcome of the last BiquadFilter call
FRes(op, coefficients, input, output) ==
    [op |-> op, coefficients |-> coefficients, input |-> input, output |-> output]

InitBuffers ==
    /\ \E s1 \in Shapes, s2 \in Shapes :
          /\ bufs = [s \in Slots |-> IF s = "source" THEN allocate(s1[1], s1[2])
                                                     ELSE allocate(s2[1], s2[2])]
          /\ created = [s \in Slots |-> IF s = "source" THEN s1 ELSE s2]
    /\ result = Res("init", "source", <<>>, "ok", <<>>)
    /\ iter = NoIter
    /\ items = <<>>

InitOneBuffer ==
    /\ bufs = [s \in Slots |-> allocate(0, 0)]
    /\ created = [s \in Slots |-> <<0, 0>>]
    /\ result = Res("init", "source", <<>>, "ok", <<>>)
    /\ iter = NoIter
    /\ items = <<>>

InitFilter ==
    /\ \E c \in CoefficientSets :
          /\ filter = new(c)
          /\ fresult = FRes("new", c, 0, 0)
    /\ inputs = <<>>
    /\ outputs = <<>>

InitOneFilter ==
    /\ LET c == CHOOSE c \in CoefficientSets : c.b0 = 1
       IN  filter = new(c) /\ fresult = FRes("new", c, 0, 0)
    /\ inputs = <<>>
    /\ outputs = <<>>

\* no writers are running on the slices of an iterator
NoWriters == [active |-> FALSE, start |-> allocate(0, 0), progs |-> <<>>]

\* no unit conversion or coefficient design has been made
NoCalc == [op |-> "none"]

InitAux ==
    /\ writers = NoWriters
    /\ calc = NoCalc

\* ---------------------------------------------------------------- Buffer actions
\* A panic ends the run: no call follows one.  While an iterator borrows
\* "source" the caller is inside its for loop, which only advances or leaves
\* the iterator.

Running == result.status = "ok"
Idle == Running /\ ~iter.alive
\* iter_chans and iter_interleaved borrow "source" shared: a new iterator can
\* be made, in place of the one held, unless that one borrows it mutably
Shared == Running /\ (~iter.alive \/ iter.kind # "chans_mut") /\ ~writers.active

\* bufs[slot] = Buffer::allocate(Channels(c), Samples(f)), in either build
Allocate(slot, c, f) ==
    /\ Idle
    /\ \E build \in Builds :
          IF build = "debug" /\ allocate_overflows(c, f)
          THEN /\ result' = Res("allocate", slot, <<c, f>>, "panic", <<>>)
               /\ UNCHANGED <<bufs, created>>
          ELSE /\ bufs' = [bufs EXCEPT ![slot] = allocate(c, f)]
               /\ created' = [created EXCEPT ![slot] = <<c, f>>]
               /\ result' = Res("allocate", slot, <<c, f>>, "ok", <<>>)
    /\ UNCHANGED <<iter, items, biquadVars, auxVars>>

\* clone_resized resizing the buffer it is called on as well (a resize in
\* place that also hands the result back)
CloneResized_in_place(c, f) ==
    /\ Idle
    /\ <<c, f>> \in Shapes
    /\ LET r == clone_resized(bufs["source"], c, f)
       IN  /\ bufs' = IF r.panic THEN bufs ELSE [s \in Slots |-> r.buf]
           /\ created' = IF r.panic THEN created ELSE [created EXCEPT !["dest"] = <<c, f>>]
           /\ result' = Res("clone_resized", "source", <<c, f>>, Status(r.panic), <<>>)
    /\ UNCHANGED <<iter, items, biquadVars, auxVars>>

\* dest = source.clone_resized(Channels(c), Samples(f))
CloneResized(c, f) ==
    /\ Idle
    /\ <<c, f>> \in Shapes
    /\ LET r == clone_resized(bufs["source"], c, f)
       IN  /\ bufs' = IF r.panic THEN bufs ELSE [bufs EXCEPT !["dest"] = r.buf]
           /\ created' = IF r.panic THEN created ELSE [created EXCEPT !["dest"] = <<c, f>>]
           /\ result' = Res("clone_resized", "source", <<c, f>>, Status(r.panic), <<>>)
    /\ UNCHANGED <<iter, items, biquadVars, auxVars>>

\* dest = source.clone()   (derived Clone)
Clone ==
    /\ Idle
    /\ bufs' = [bufs EXCEPT !["dest"] = bufs["source"]]
    /\ created' = [created EXCEPT !["dest"] = created["source"]]
    /\ result' = Res("clone", "source", <<>>, "ok", <<>>)
    /\ UNCHANGED <<iter, items, biquadVars, auxVars>>

\* bufs[slot].chan(index)
Chan(slot, index) ==
    /\ Idle
    /\ LET r == chan(bufs[slot], index)
       IN  result' = Res("chan", slot, <<index>>, Status(r.panic),
                         IF r.panic THEN <<>> ELSE SliceOf(bufs[slot], r))
    /\ UNCHANGED <<bufs, created, iter, items, biquadVars, auxVars>>

\* bufs[slot].chan_mut(index)[j] = value
ChanMutWrite(slot, index, j, value) ==
    /\ Idle
    /\ LET r == slice_write(bufs[slot], chan_mut(bufs[slot], index), j, value)
       IN  /\ bufs' = [bufs EXCEPT ![slot] = r.buf]
           /\ result' = Res("chan_mut", slot, <<index, j, value>>, Status(r.panic), <<>>)
    /\ UNCHANGED <<created, iter, items, biquadVars, auxVars>>

\* bufs[slot].data_mut()[i] = value
DataMutWrite(slot, i, value) ==
    /\ Idle
    /\ LET r == data_mut_write(bufs[slot], i, value)
       IN  /\ bufs' = [bufs EXCEPT ![slot] = r.buf]
           /\ result' = Res("data_mut", slot, <<i, value>>, Status(r.panic), <<>>)
    /\ UNCHANGED <<created, iter, items, biquadVars, auxVars>>

\* bufs[slot].is_default_filled()
IsDefaultFilled(slot) ==
    /\ Idle
    /\ result' = Res("is_default_filled", slot, <<>>, "ok", <<is_default_filled(bufs[slot])>>)
    /\ UNCHANGED <<bufs, created, iter, items, biquadVars, auxVars>>

\* bufs[slot].fill_default()
FillDefault(slot) ==
    /\ Idle
    /\ bufs' = [bufs EXCEPT ![slot] = fill_default(bufs[slot])]
    /\ result' = Res("fill_default", slot, <<>>, "ok", <<>>)
    /\ UNCHANGED <<created, iter, items, biquadVars, auxVars>>

\* bufs[slot].map_samples(f); the calls f received are kept with the outcome
MapSamples(slot, f) ==
    /\ Idle
    /\ LET r == map_samples(bufs[slot], f)
       IN  /\ bufs' = [bufs EXCEPT ![slot] = r.buf]
           /\ result' = Res("map_samples", slot, <<f>>, "ok", r.calls)
    /\ UNCHANGED <<created, iter, items, biquadVars, auxVars>>

\* source.copy_into(&mut dest)
CopyInto ==
    /\ Idle
    /\ LET r == copy_into(bufs["source"], bufs["dest"])
       IN  /\ bufs' = [bufs EXCEPT !["dest"] = r.buf]
           /\ result' = Res("copy_into", "source", <<>>, Status(r.panic), <<>>)
    /\ UNCHANGED <<created, iter, items, biquadVars, auxVars>>

\* let it = source.iter_interleaved()
IterInterleaved ==
    /\ Shared
    /\ iter' = iter_interleaved(bufs["source"])
    /\ items' = <<>>
    /\ result' = Res("iter_interleaved", "source", <<>>, "ok", <<>>)
    /\ UNCHANGED <<bufs, created, biquadVars, auxVars>>

\* it.next()
InterleavedNext ==
    /\ Running /\ iter.alive /\ iter.kind = "interleaved"
    /\ LET r == interleaved_next(bufs["source"], iter.index)
       IN  /\ iter' = [iter EXCEPT !.index = r.index, !.done = ~r.some]
           /\ items' = IF r.some THEN Append(items, r.item) ELSE items
           /\ result' = Res("next", "source", <<>>, Status(r.panic),
                            IF r.some THEN <<r.item>> ELSE <<>>)
    /\ UNCHANGED <<bufs, created, biquadVars, auxVars>>

\* let it = source.iter_chans()
IterChans ==
    /\ Shared
    /\ iter' = iter_chans(bufs["source"])
    /\ items' = <<>>
    /\ result' = Res("iter_chans", "source", <<>>, "ok", <<>>)
    /\ UNCHANGED <<bufs, created, biquadVars, auxVars>>

\* it.next(): the yielded slice is kept as its range of data
ChannelNext ==
    /\ Running /\ iter.alive /\ iter.kind = "chans"
    /\ LET r == channel_next(bufs["source"], iter.index)
       IN  /\ iter' = [iter EXCEPT !.index = r.current_channel, !.done = ~r.some]
           /\ items' = IF r.some THEN Append(items, r.item) ELSE items
           /\ result' = Res("next", "source", <<>>, Status(r.panic),
                            IF r.some THEN SliceOf(bufs["source"], r.item) ELSE <<>>)
    /\ UNCHANGED <<bufs, created, biquadVars, auxVars>>

\* let it = source.iter_chans_mut()
IterChansMut ==
    /\ Idle
    /\ iter' = [alive |-> TRUE, kind |-> "chans_mut", index |-> 0, done |-> FALSE]
    /\ items' = <<>>
    /\ result' = Res("iter_chans_mut", "source", <<>>, "ok", <<>>)
    /\ UNCHANGED <<bufs, created, biquadVars, auxVars>>

\* it.next(): the yielded mutable slice is kept as its range of data
MutChannelNext ==
    /\ Running /\ iter.alive /\ iter.kind = "chans_mut"
    /\ LET r == mut_channel_next(bufs["source"], iter.index)
       IN  /\ iter' = [iter EXCEPT !.index = r.current_channel, !.done = ~r.some]
           /\ items' = IF r.some THEN Append(items, r.item) ELSE items
           /\ result' = Res("next", "source", <<>>, Status(r.panic), <<>>)
    /\ UNCHANGED <<bufs, created, biquadVars, auxVars>>

\* slice[j] = value through the k-th mutable slice the iterator has yielded
YieldedSliceWrite(k, j, value) ==
    /\ Running /\ iter.alive /\ iter.kind = "chans_mut"
    /\ k < Len(items)
    /\ LET r == slice_write(bufs["source"],
                            [panic |-> FALSE, start |-> items[k + 1].start,
                             end |-> items[k + 1].end], j, value)
       IN  /\ bufs' = [bufs EXCEPT !["source"] = r.buf]
           /\ result' = Res("slice_write", "source", <<k, j, value>>, Status(r.panic), <<>>)
    /\ UNCHANGED <<created, iter, items, biquadVars, auxVars>>

\* the iterator goes out of scope
IterDrop ==
    /\ Running /\ iter.alive
    /\ iter' = NoIter
    /\ items' = <<>>
    /\ result' = Res("drop", "source", <<>>, "ok", <<>>)
    /\ UNCHANGED <<bufs, created, biquadVars, auxVars>>

\* every slice the iterator yielded goes to a writer of its own, each running
\* `for s in slice.iter_mut() { *s = f(*s) }` with its own f; the buffer as
\* it is now is kept to run the writers in turn on
Spawn ==
  \E funcs \in [1..Len(items) -> MapFuncs] :
    /\ Running /\ iter.alive /\ iter.kind = "chans_mut" /\ iter.done
    /\ ~writers.active
    /\ writers' = [active |-> TRUE, start |-> bufs["source"],
                   progs |-> [k \in 1..Len(items) |-> [func |-> funcs[k], pc |-> 0]]]
    /\ result' = Res("spawn", "source", <<>>, "ok", <<>>)
    /\ UNCHANGED <<bufs, created, iter, items, biquadVars, calc>>

\* writer k makes the next pass of its loop: one sample write
WriterStep(k) ==
    /\ Running /\ writers.active
    /\ k \in 1..Len(writers.progs)
    /\ LET w == writers.progs[k]
       IN  /\ w.pc < items[k].end - items[k].start
           /\ bufs' = [bufs EXCEPT !["source"] = writer_step(@, items[k], w.func, w.pc)]
           /\ writers' = [writers EXCEPT !.progs[k].pc = w.pc + 1]
           /\ result' = Res("writer_write", "source", <<k - 1, w.pc>>, "ok", <<>>)
    /\ UNCHANGED <<created, iter, items, biquadVars, calc>>

\* all writers have finished; their slices and the iterator go out of scope
Join ==
    /\ Running /\ writers.active
    /\ \A k \in 1..Len(writers.progs) :
           writers.progs[k].pc = items[k].end - items[k].start
    /\ writers' = NoWriters
    /\ iter' = NoIter
    /\ items' = <<>>
    /\ result' = Res("join", "source", <<>>, "ok", <<>>)
    /\ UNCHANGED <<bufs, created, biquadVars, calc>>

\* ---------------------------------------------------------------- BiquadFilter actions

\* filter = BiquadFilter::new(c)
New(c) ==
    /\ filter' = new(c)
    /\ inputs' = <<>>
    /\ outputs' = <<>>
    /\ fresult' = FRes("new", c, 0, 0)
    /\ UNCHANGED <<bufferVars, auxVars>>

\* filter.set_coefficients(c)
SetCoefficients(c) ==
    /\ filter' = set_coefficients(filter, c)
    /\ fresult' = FRes("set_coefficients", c, 0, 0)
    /\ UNCHANGED <<inputs, outputs, bufferVars, auxVars>>

\* filter.process(input)
Process(input) ==
    /\ Len(inputs) < MaxProcess
    /\ LET r == process(filter, input)
       IN  /\ filter' = r.filter
           /\ inputs' = Append(inputs, input)
           /\ outputs' = Append(outputs, r.output)
           /\ fresult' = FRes("process", filter.coefficients, input, r.output)
    /\ UNCHANGED <<bufferVars, auxVars>>

\* ---------------------------------------------------------------- design actions

\* BiquadCoefficients::low_pass_coefficients(sample_rate, cutoff)
LowPassCoefficients(sample_rate, cutoff) ==
    /\ calc' = [op |-> "low_pass_coefficients", sample_rate |-> sample_rate,
                cutoff |-> cutoff,
                coefficients |-> low_pass_coefficients(sample_rate, cutoff)]
    /\ UNCHANGED <<bufferVars, biquadVars, writers>>

\* ---------------------------------------------------------------- units actions

\* samples = seconds.to_samples(sr); back = samples.to_seconds(sr)
ToSamplesToSeconds(seconds, sr) ==
    /\ LET samples == to_samples(seconds, sr)
       IN  calc' = [op |-> "to_samples", seconds |-> seconds, sr |-> sr,
                    samples |-> samples, back |-> to_seconds(samples, sr)]
    /\ UNCHANGED <<bufferVars, biquadVars, writers>>

\* a.get_overlap(b)
GetOverlap(a, b) ==
    /\ calc' = [op |-> "get_overlap", a |-> a, b |-> b, ret |-> get_overlap(a, b)]
    /\ UNCHANGED <<bufferVars, biquadVars, writers>>

\* ---------------------------------------------------------------- specifications

Init == InitBuffers /\ InitOneFilter /\ InitAux

Next ==
    \/ \E slot \in Slots, sh \in Shapes : Allocate(slot, sh[1], sh[2])
    \/ \E c \in 0..MaxChannels, f \in 0..MaxSamples : CloneResized(c, f)
    \/ Clone
    \/ \E index \in Indices : Chan("source", index)
    \/ \E slot \in Slots, index \in Indices, j \in 0..MaxSamples, v \in SampleValues :
          ChanMutWrite(slot, index, j, v)
    \/ \E i \in Positions, v \in SampleValues : DataMutWrite("source", i, v)
    \/ \E slot \in Slots : IsDefaultFilled(slot)
    \/ FillDefault("source")
    \/ \E f \in MapClosures : MapSamples("source", f)
    \/ CopyInto
    \/ IterInterleaved
    \/ InterleavedNext
    \/ IterChans
    \/ ChannelNext
    \/ IterChansMut
    \/ MutChannelNext
    \/ \E k \in 0..(MaxChannels - 1), j \in 0..MaxSamples, v \in SampleValues :
          YieldedSliceWrite(k, j, v)
    \/ IterDrop

Spec == Init /\ [][Next]_vars

InitBiquad == InitOneBuffer /\ InitFilter /\ InitAux

NextBiquad ==
    \/ \E c \in CoefficientSets : New(c)
    \/ \E c \in CoefficientSets : SetCoefficients(c)
    \/ \E input \in FilterInputs : Process(input)

SpecBiquad == InitBiquad /\ [][NextBiquad]_vars

InitWriters == InitOneBuffer /\ InitOneFilter /\ InitAux

NextWriters ==
    \/ \E sh \in Shapes : Allocate("source", sh[1], sh[2])
    \/ \E index \in Indices, j \in 0..MaxSamples, v \in SampleValues :
          ChanMutWrite("source", index, j, v)
    \/ IterChansMut
    \/ MutChannelNext
    \/ Spawn
    \/ \E k \in 1..MaxChannels : WriterStep(k)
    \/ Join

SpecWriters == InitWriters /\ [][NextWriters]_vars

InitDesign == InitOneBuffer /\ InitOneFilter /\ InitAux

NextDesign ==
    \E sample_rate \in SampleRates, cutoff \in Cutoffs :
        LowPassCoefficients(sample_rate, cutoff)

SpecDesign == InitDesign /\ [][NextDesign]_vars

InitUnits == InitOneBuffer /\ InitOneFilter /\ InitAux

NextUnits ==
    \/ \E seconds \in SecondsValues, sr \in RateValues : ToSamplesToSeconds(seconds, sr)
    \/ \E a \in Sections, b \in Sections : GetOverlap(a, b)

SpecUnits == InitUnits /\ [][NextUnits]_vars

\* allocate with every channel count a u32 holds and every frame count a u64
\* holds
InitAlloc == InitOneBuffer /\ InitOneFilter /\ InitAux

NextAlloc ==
    \E c \in 0..(2 ^ ChannelBits - 1), f \in 0..(2 ^ SampleBits - 1) :
        Allocate("source", c, f)

SpecAlloc == InitAlloc /\ [][NextAlloc]_vars

\* ---------------------------------------------------------------- claims

\* chan(i)[j] read off the storage: the layout C2 establishes for chan
At(b, i, j) == b.data[i * b.num_samples + j + 1]
ShapeOf(b) == <<b.num_channels, b.num_samples>>
\* the n-th most recent element of a history, 0 where there is none
Recent(seq, n) == IF Len(seq) >= n THEN seq[Len(seq) - n + 1] ELSE 0

\* C1: in every reachable state each buffer's data holds exactly
\* num_channels * num_samples elements, and its num_channels / num_samples
\* are the ones given to the call that created it.
C1_ShapeInvariant ==
    \A s \in Slots :
        /\ Len(bufs[s].data) = bufs[s].num_channels * bufs[s].num_samples
        /\ ShapeOf(bufs[s]) = created[s]

C1_Witness ==
    /\ result.op = "copy_into" /\ result.status = "ok"
    /\ created["dest"] = <<2, 2>>
    /\ bufs["dest"].data = <<0, 1, 1, 1>>

\* C2: for index < num_channels, chan(index) returns the num_samples elements
\* data[index*num_samples .. (index+1)*num_samples), and
\* chan_mut(index)[j] = v sets data[index*num_samples + j] to v and changes
\* nothing else.
C2_ChannelRange ==
    [][ /\ result'.op = "chan" /\ result'.args[1] < bufs[result'.slot].num_channels
           => LET b == bufs[result'.slot]
                  c == result'.args[1]
              IN  /\ result'.status = "ok"
                  /\ Len(result'.ret) = b.num_samples
                  /\ \A j \in 0..(b.num_samples - 1) :
                        result'.ret[j + 1] = b.data[c * b.num_samples + j + 1]
        /\ result'.op = "chan_mut"
           /\ result'.args[1] < bufs[result'.slot].num_channels
           /\ result'.args[2] < bufs[result'.slot].num_samples
           => LET b == bufs[result'.slot]
                  c == result'.args[1]
                  j == result'.args[2]
              IN  /\ result'.status = "ok"
                  /\ bufs' = [bufs EXCEPT ![result'.slot].data[c * b.num_samples + j + 1]
                                              = result'.args[3]]
      ]_vars

C2_Witness ==
    /\ result.op = "chan_mut" /\ result.status = "ok"
    /\ result.args = <<1, 1, 1>>
    /\ ShapeOf(bufs[result.slot]) = <<2, 2>>
    /\ bufs[result.slot].data = <<0, 1, 0, 1>>

\* C3: the items an interleaved iterator has produced are, in order,
\* chan(k mod C)[k div C] for k = 0, 1, ...; there are never more than C*F of
\* them, and exactly C*F once next() has returned None.
C3_InterleavedOrder ==
    iter.alive /\ iter.kind = "interleaved" =>
        LET b == bufs["source"]
            C == b.num_channels
            F == b.num_samples
        IN  /\ Len(items) <= C * F
            /\ \A k \in 0..(Len(items) - 1) :
                  items[k + 1] = SliceOf(b, chan(b, k % C))[(k \div C) + 1]
            /\ iter.done => Len(items) = C * F

C3_Witness ==
    /\ iter.alive /\ iter.kind = "interleaved" /\ iter.done
    /\ ShapeOf(bufs["source"]) = <<2, 2>>
    /\ bufs["source"].data = <<1, 1, 0, 0>>
    /\ items = <<1, 0, 1, 0>>

\* C4: R = B.clone_resized(c2, f2) returns, has shape (c2, f2), agrees with B
\* on every channel < min(c, c2) and sample < min(f, f2), and holds the
\* default value everywhere else.
C4_CloneResized ==
    result.op = "clone_resized" =>
        LET B == bufs["source"]
            R == bufs["dest"]
            c2 == result.args[1]
            f2 == result.args[2]
        IN  /\ result.status = "ok"
            /\ ShapeOf(R) = <<c2, f2>>
            /\ Len(R.data) = c2 * f2
            /\ \A i \in 0..(c2 - 1), j \in 0..(f2 - 1) :
                  At(R, i, j) = IF i < B.num_channels /\ j < B.num_samples
                                THEN At(B, i, j) ELSE Default

\* a mixed resize: more channels, fewer samples
C4_Witness ==
    /\ result.op = "clone_resized" /\ result.status = "ok"
    /\ ShapeOf(bufs["source"]) = <<1, 2>>
    /\ bufs["source"].data = <<1, 1>>
    /\ result.args = <<2, 1>>
    /\ bufs["dest"].data = <<1, 0>>

\* C5: process(input) returns b0*input + b1*x1 + b2*x2 - a1*y1 - a2*y2 of the
\* state before the call, and leaves x2 = old x1, x1 = input, y2 = old y1,
\* y1 = output, coefficients unchanged.
C5_Process ==
    [][ fresult'.op = "process"
        => LET c == filter.coefficients
               input == fresult'.input
           IN  /\ fresult'.output = c.b0 * input + c.b1 * filter.x1 + c.b2 * filter.x2
                                    - c.a1 * filter.y1 - c.a2 * filter.y2
               /\ filter'.x2 = filter.x1
               /\ filter'.x1 = input
               /\ filter'.y2 = filter.y1
               /\ filter'.y1 = fresult'.output
               /\ filter'.coefficients = c
      ]_vars

C5_Witness ==
    /\ fresult.op = "process"
    /\ \A k \in {"b0", "b1", "b2", "a1", "a2"} : fresult.coefficients[k] # 0
    /\ fresult.input # 0
    /\ filter.x2 # 0 /\ filter.y2 # 0 /\ filter.y1 # 0
    /\ Len(inputs) = 3

\* C6: x1, x2 are the last and second-last inputs given to process and y1, y2
\* the last and second-last outputs it returned, counted since construction
\* (0 where there are fewer); the first process call returns b0 * input.
C6_StateIsHistory ==
    /\ filter.x1 = Recent(inputs, 1)
    /\ filter.x2 = Recent(inputs, 2)
    /\ filter.y1 = Recent(outputs, 1)
    /\ filter.y2 = Recent(outputs, 2)
    /\ fresult.op = "process" /\ Len(inputs) = 1
       => fresult.output = fresult.coefficients.b0 * fresult.input

\* two samples processed, then a coefficient swap
C6_Witness ==
    /\ fresult.op = "set_coefficients"
    /\ Len(inputs) = 2
    /\ filter.x1 # 0 /\ filter.x2 # 0 /\ filter.y1 # 0 /\ filter.y2 # 0
    /\ filter.x1 # filter.x2

\* C7: set_coefficients(c) stores c and leaves x1, x2, y1, y2 as they were; the
\* process call right after it computes with c and the inputs and outputs from
\* before the swap.
C7_SetCoefficients ==
    [][ /\ fresult'.op = "set_coefficients"
           => /\ filter'.coefficients = fresult'.coefficients
              /\ filter'.x1 = filter.x1 /\ filter'.x2 = filter.x2
              /\ filter'.y1 = filter.y1 /\ filter'.y2 = filter.y2
        /\ fresult.op = "set_coefficients" /\ fresult'.op = "process"
           => LET c == fresult.coefficients
              IN  fresult'.output =
                      c.b0 * fresult'.input
                      + c.b1 * Recent(inputs, 1) + c.b2 * Recent(inputs, 2)
                      - c.a1 * Recent(outputs, 1) - c.a2 * Recent(outputs, 2)
      ]_vars

C7_Witness ==
    /\ fresult.op = "set_coefficients"
    /\ filter.x1 # 0 /\ filter.y1 # 0
    /\ filter.coefficients.b0 = 0

\* C8: chan(index) and chan_mut(index) with index >= num_channels panic, return
\* no slice and leave every buffer as it was.
C8_OutOfRangePanics ==
    [][ result'.op \in {"chan", "chan_mut"}
        /\ result'.args[1] >= bufs[result'.slot].num_channels
        => /\ result'.status = "panic"
           /\ result'.ret = <<>>
           /\ bufs' = bufs
      ]_vars

C8_Witness ==
    /\ result.op = "chan" /\ result.status = "panic"
    /\ ShapeOf(bufs["source"]) = <<2, 0>>
    /\ result.args = <<2>>

\* C9: copy_into between buffers that differ in num_channels or num_samples
\* panics and leaves dest (and source) exactly as before.
C9_CopyIntoMismatch ==
    [][ result'.op = "copy_into" /\ ShapeOf(bufs["source"]) # ShapeOf(bufs["dest"])
        => result'.status = "panic" /\ bufs' = bufs
      ]_vars

\* same number of elements, different shape
C9_Witness ==
    /\ result.op = "copy_into" /\ result.status = "panic"
    /\ ShapeOf(bufs["source"]) = <<1, 2>> /\ bufs["source"].data = <<1, 1>>
    /\ ShapeOf(bufs["dest"]) = <<2, 1>> /\ bufs["dest"].data = <<0, 1>>

\* C10: copy_into between buffers of equal shape returns, dest then holds
\* source's sample in every channel and position, source and dest's shape are
\* unchanged.
C10_CopyIntoEqualShape ==
    [][ result'.op = "copy_into" /\ ShapeOf(bufs["source"]) = ShapeOf(bufs["dest"])
        => /\ result'.status = "ok"
           /\ \A c \in 0..(bufs["source"].num_channels - 1),
                 s \in 0..(bufs["source"].num_samples - 1) :
                 At(bufs'["dest"], c, s) = At(bufs["source"], c, s)
           /\ bufs'["source"] = bufs["source"]
           /\ ShapeOf(bufs'["dest"]) = ShapeOf(bufs["dest"])
           /\ Len(bufs'["dest"].data) = Len(bufs["dest"].data)
      ]_vars

C10_Witness ==
    /\ result.op = "copy_into" /\ result.status = "ok"
    /\ ShapeOf(bufs["source"]) = <<2, 2>>
    /\ bufs["source"].data = <<0, 1, 1, 0>>
    /\ bufs["dest"].data = <<0, 1, 1, 0>>

\* the storage positions a yielded slice covers
RangePositions(r) == (r.start + 1)..r.end

\* C11: the slices one iter_chans_mut() iterator has yielded are pairwise
\* non-overlapping: the i-th covers exactly data[i*num_samples ..
\* (i+1)*num_samples), no position lies in two of them, no more slices are
\* yielded than there are channels, and a write through one yielded slice
\* changes that slice at the written sample and leaves what every other
\* yielded slice shows as it was.
C11_DisjointMutSlices ==
    [][(iter'.kind = "chans_mut" /\ result'.status = "ok") =>
        LET b == bufs'["source"]
            F == b.num_samples
        IN  /\ Len(items') <= b.num_channels
            /\ \A i \in 1..Len(items') :
                   items'[i] = [start |-> (i - 1) * F, end |-> i * F]
            /\ \A i \in 1..Len(items'), k \in 1..Len(items') :
                   i # k => RangePositions(items'[i]) \cap RangePositions(items'[k]) = {}
            /\ result'.op = "slice_write" =>
                   LET k == result'.args[1] + 1
                       j == result'.args[2] + 1
                   IN  /\ SliceOf(b, items[k])[j] = result'.args[3]
                       /\ \A i \in 1..Len(items) :
                              i # k => SliceOf(b, items[i]) = SliceOf(bufs["source"], items[i])
    ]_vars

\* both slices of a 2 x 2 buffer are held, and a 1 was written through the
\* first while the second already showed a 1
C11_Witness ==
    /\ iter.kind = "chans_mut"
    /\ Len(items) = 2
    /\ result.op = "slice_write" /\ result.status = "ok"
    /\ result.args = <<0, 1, 1>>
    /\ bufs["source"].data = <<0, 1, 1, 0>>

\* every writer has made all the passes of its loop
WritersDone ==
    \A k \in 1..Len(writers.progs) :
        writers.progs[k].pc = items[k].end - items[k].start

\* C12: while writers run, each on the slice of its own channel, what channel
\* k holds is what writer k alone would have made of it in the passes it has
\* completed (no write to it is lost, no other writer changed it), and once
\* all have finished the buffer is the one that running the writers one after
\* another gives, whatever the order their sample writes were made in.
C12_WritersInterleave ==
    writers.active =>
        /\ \A k \in 1..Len(writers.progs) :
               SliceOf(bufs["source"], items[k]) =
                   SliceOf(run_writer(writers.start, items[k], writers.progs[k].func,
                                      0, writers.progs[k].pc), items[k])
        /\ WritersDone =>
               bufs["source"] = run_writers_in_turn(writers.start, items, writers.progs, 1)

\* two writers on a 2 x 2 buffer have both finished, the first one last
C12_Witness ==
    /\ writers.active /\ WritersDone
    /\ Len(writers.progs) = 2
    /\ writers.progs[1].func = "flip" /\ writers.progs[2].func = "one"
    /\ writers.start.data = <<0, 1, 0, 0>>
    /\ bufs["source"].data = <<1, 0, 1, 1>>
    /\ result.op = "writer_write" /\ result.args = <<0, 1>>

\* C13: map_samples(f) calls f exactly once per stored element, in storage
\* order (the arguments of its calls are the elements of data, first to
\* last), replaces each element by what its call returned, and leaves the
\* shape as it was; after map_samples of a constant closure every chan(i)[j]
\* is that constant.
C13_MapSamples ==
    [][result'.op = "map_samples" =>
        LET before == bufs[result'.slot]
            after == bufs'[result'.slot]
            f == result'.args[1]
            calls == result'.ret
        IN  /\ calls = before.data
            /\ ShapeOf(after) = ShapeOf(before)
            /\ Len(after.data) = Len(before.data)
            /\ \A i \in 1..Len(before.data) :
                   after.data[i] = CallFunc(f, before.data[i], SubSeq(before.data, 1, i - 1))
            /\ f = "one" =>
                   \A i \in 0..(after.num_channels - 1), j \in 0..(after.num_samples - 1) :
                       At(after, i, j) = 1
    ]_vars

\* the counting closure was mapped over a 2 x 2 buffer that held <<1, 0, 0, 0>>
C13_Witness ==
    /\ result.op = "map_samples" /\ result.args = <<"toggle">>
    /\ result.ret = <<1, 0, 0, 0>>
    /\ ShapeOf(bufs["source"]) = <<2, 2>>
    /\ bufs["source"].data = <<1, 0, 1, 0>>

\* C14: is_default_filled() returns true exactly when every stored element
\* equals the default value: it returns true when called right after the
\* buffer was allocated (an empty buffer included) or filled with
\* fill_default, and false whenever some element is not the default.
C14_IsDefaultFilled ==
    [][result'.op = "is_default_filled" =>
        LET b == bufs[result'.slot]
            answer == result'.ret[1]
        IN  /\ answer = (\A i \in 1..Len(b.data) : b.data[i] = Default)
            /\ (\E i \in 1..Len(b.data) : b.data[i] # Default) => answer = FALSE
            /\ result.op = "init" => answer = TRUE
            /\ (result.op \in {"allocate", "fill_default"} /\ result.slot = result'.slot)
                   => answer = TRUE
    ]_vars

\* is_default_filled answered false on a 2 x 2 buffer whose last element
\* alone is not the default
C14_Witness ==
    /\ result.op = "is_default_filled" /\ result.slot = "source"
    /\ result.ret = <<FALSE>>
    /\ bufs["source"].data = <<0, 0, 0, 1>>

\* C15: the successive next() calls on an iter_chans() iterator return
\* chan(0), chan(1), ... in that order and exactly num_channels slices before
\* None; and every new iter_chans() or iter_interleaved() iterator starts at
\* the first item, however far the iterator held before it had been advanced.
C15_ChannelOrderRestart ==
    [][/\ (iter'.kind = "chans" /\ result'.status = "ok") =>
           LET b == bufs'["source"]
               C == b.num_channels
           IN  /\ Len(items') <= C
               /\ \A k \in 0..(Len(items') - 1) :
                      LET c == chan(b, k)
                      IN  items'[k + 1] = [start |-> c.start, end |-> c.end]
               /\ iter'.done <=> (result'.op = "next" /\ Len(items) = C)
               /\ (result'.op = "next" /\ Len(items) < C) =>
                      /\ Len(items') = Len(items) + 1
                      /\ result'.ret = SliceOf(b, chan(b, Len(items)))
       /\ result'.op \in {"iter_chans", "iter_interleaved"} =>
              /\ iter'.alive /\ ~iter'.done
              /\ iter'.index = 0
              /\ items' = <<>>
    ]_vars

\* both channels of a 2 x 2 buffer were yielded and next() then returned None
C15_Witness ==
    /\ iter.kind = "chans" /\ iter.done
    /\ result.op = "next" /\ result.ret = <<>>
    /\ ShapeOf(bufs["source"]) = <<2, 2>>
    /\ bufs["source"].data = <<0, 1, 1, 0>>
    /\ items = <<[start |-> 0, end |-> 2], [start |-> 2, end |-> 4]>>

\* |x|, and how far apart two f64 values may be to count as about equal
Abs(x) == IF x >= 0 THEN x ELSE -x
Tolerance == FixedOne \div 100
SumB(c) == c.b0 + c.b1 + c.b2
SumA(c) == FixedOne + c.a1 + c.a2

\* C17 as stated: low_pass_coefficients at sample rate 10 with a cutoff near 0
\* returns coefficients with b0+b1+b2 about 1 and 1+a1+a2 about 2.
C17_LowPassSumsAsStated ==
    (calc.op = "low_pass_coefficients" /\ calc.sample_rate = 10) =>
        /\ Abs(SumB(calc.coefficients) - FixedOne) <= Tolerance
        /\ Abs(SumA(calc.coefficients) - 2 * FixedOne) <= Tolerance

\* C17 amended: low_pass_coefficients at sample rate 10 with a cutoff near 0
\* (up to 0.1 Hz) returns coefficients with b0+b1+b2 about 0 and 1+a1+a2
\* about 0, the two sums being equal up to rounding.
C17_LowPassSums ==
    (calc.op = "low_pass_coefficients" /\ calc.sample_rate = 10) =>
        /\ Abs(SumB(calc.coefficients)) <= Tolerance
        /\ Abs(SumA(calc.coefficients)) <= Tolerance
        /\ Abs(SumB(calc.coefficients) - SumA(calc.coefficients)) <= 4

\* the low pass for 0.1 Hz at sample rate 10 was designed, b1 not zero
C17_Witness ==
    /\ calc.op = "low_pass_coefficients"
    /\ calc.sample_rate = 10 /\ calc.cutoff = 100
    /\ calc.coefficients.b1 > 0
    /\ calc.coefficients.a1 < -FixedOne

\* C18: to_samples returns seconds * sample rate rounded to the nearest whole
\* sample (it is at most half a sample from the product), and the seconds
\* that to_seconds makes of it differ from the seconds given by at most half
\* a sample period, for every non-negative seconds and positive sample rate.
\* With seconds = n/10 and rate = m/2:  |samples - n*m/20| <= 1/2  and
\* |num/den - n/10| <= 1/m.
C18_ToSamplesRoundTrip ==
    calc.op = "to_samples" =>
        LET n == calc.seconds
            m == calc.sr
        IN  /\ Abs(20 * calc.samples - n * m) <= 10
            /\ ~calc.back.nan
            /\ Abs(10 * calc.back.num - n * calc.back.den) * m <= 10 * calc.back.den

\* C19: for sections with non-negative durations, a.get_overlap(b) is None
\* exactly when a and b share no span of positive length, and otherwise a
\* section from the later start to the earlier end; a returned overlap has a
\* positive duration, and a.get_overlap(b) = b.get_overlap(a).
C19_GetOverlap ==
    calc.op = "get_overlap" =>
        LET a == calc.a
            b == calc.b
            later_start == Max(a.start, b.start)
            earlier_end == Min(a.start + a.duration, b.start + b.duration)
        IN  /\ calc.ret = None <=> earlier_end - later_start <= 0
            /\ calc.ret # None =>
                   /\ calc.ret.start = later_start
                   /\ calc.ret.start + calc.ret.duration = earlier_end
                   /\ calc.ret.duration > 0
            /\ calc.ret = get_overlap(b, a)

\* C20: for every channel count and frame count, allocate returns (it does
\* not abort on the multiplication) and the buffer it returns holds exactly
\* channel count * frame count elements, the product taken in the integers.
C20_AllocateExact ==
    result.op = "allocate" =>
        /\ result.status = "ok"
        /\ Len(bufs[result.slot].data) = result.args[1] * result.args[2]

\* the calls that take the buffer by shared reference
ReadOnlyOps ==
    {"chan", "is_default_filled", "clone", "clone_resized", "copy_into",
     "iter_interleaved", "iter_chans"}

\* C21: the read-only operations leave the buffer they are called on as it
\* was, in data, num_channels and num_samples: is_default_filled, clone_resized
\* and copy_into (for its source), iter_interleaved and iter_chans and every
\* next() on their iterators; and a write to the buffer clone_resized
\* returned leaves the original as it was.
C21_ReadOnlyFrame ==
    [][/\ result'.op \in ReadOnlyOps => bufs'[result'.slot] = bufs[result'.slot]
       /\ (result'.op = "next" /\ iter.kind \in {"interleaved", "chans"}) =>
              bufs' = bufs
       /\ (result'.op \in {"chan_mut", "data_mut"} /\ result'.slot = "dest") =>
              bufs'["source"] = bufs["source"]
    ]_vars

\* clone_resized(1, 1) returned on a 2 x 2 buffer that holds <<1, 0, 0, 1>>
C21_Witness ==
    /\ result.op = "clone_resized" /\ result.status = "ok"
    /\ result.args = <<1, 1>>
    /\ ShapeOf(bufs["source"]) = <<2, 2>>
    /\ bufs["source"].data = <<1, 0, 0, 1>>
    /\ bufs["dest"].data = <<1>>

\* the number of items an iterator of the given kind over b yields
ItemCount(kind, b) ==
    IF kind = "interleaved" THEN b.num_channels * b.num_samples ELSE b.num_channels

\* C22: every next() on a buffer iterator returns, for every shape (zero
\* channels or zero samples included): it yields an item while fewer than
\* num_channels * num_samples (iter_interleaved) or num_channels (iter_chans,
\* iter_chans_mut) items have been yielded and None exactly then, the
\* channel slices are empty when num_samples is 0, and once next() has
\* returned None every later next() returns None.
C22_IteratorsFinite ==
    [][result'.op = "next" =>
        LET b == bufs["source"]
            n == ItemCount(iter.kind, b)
        IN  /\ result'.status = "ok"
            /\ Len(items) <= n
            /\ Len(items) < n => (~iter'.done /\ Len(items') = Len(items) + 1)
            /\ Len(items) = n => (iter'.done /\ items' = items)
            /\ iter.done => (iter'.done /\ items' = items)
            /\ (iter.kind # "interleaved" /\ b.num_samples = 0) =>
                   \A k \in 1..Len(items') : items'[k].end = items'[k].start
    ]_vars

\* next() returned None at once on an interleaved iterator over a buffer of
\* zero channels
C22_Witness ==
    /\ iter.kind = "interleaved" /\ iter.done
    /\ result.op = "next" /\ result.status = "ok"
    /\ ShapeOf(bufs["source"]) = <<0, 2>>
    /\ items = <<>>

====
